---- MODULE Spec2Model ----
(***************************************************************************)
(* Multifractal detrended fluctuation analysis (mfdfa.py): dfa, basic_dfa  *)
(* and hurst as a state machine.                                           *)
(*                                                                         *)
(* Numbers.  The series x holds integers.  The profile is kept as exact    *)
(* rationals: a sequence of integer numerators over one denominator.       *)
(* Floating-point values that the code only passes on (local variances,    *)
(* fluctuation values, slopes) are kept by their class in the extended     *)
(* reals ("zero", "pos", "real", "inf", "neginf", "nan") together with     *)
(* what they were computed from; numpy's special values (log 0 = -inf,     *)
(* mean of nothing = nan, 0 ** negative = inf) are kept as numpy produces  *)
(* them.  Rounding error is not modelled: a value that is zero in exact    *)
(* arithmetic has class "zero".                                            *)
(***************************************************************************)
EXTENDS Integers, Sequences, FiniteSets, TLC

\* ---------------------------------------------------------------- bounds
MaxN == 5          \* longest series handed to dfa directly
MaxScale == 3      \* largest scale in a scale set handed to dfa directly
MaxObs == 3        \* largest observations count handed to basic_dfa / hurst
LenBand == 2       \* series lengths tried around each threshold of basic_dfa

\* ------------------------------------------------------ program constants
MinScale == 20           \* max(20, ...)
LenPerMinScale == 100    \* floor(N/100)
ScaleSpan == 20          \* 20*s_min
LenPerMaxScale == 10     \* floor(N/10)
BasicDegree == 1         \* m=1
HurstOrder == 2          \* Q=[2]

\* ------------------------------------------------------------ input sets
XVals == {0, 1}
Degrees == {0, 1}
QOrders == {<<0>>, <<2>>, <<-2>>, <<0, 2>>, <<2, 0>>, <<-2, 2>>, <<2, 2>>}
BasicQOrders == {<<0>>, <<2>>, <<-2, 2>>}
ScaleSets == {<<a>> : a \in 0..MaxScale} \cup {<<a, b>> : a, b \in 0..MaxScale}
SeriesOfLen(n) == [1..n -> XVals]
\* thresholds of basic_dfa: below/above N = 10*20 and N = 100*(20+1)
BasicLens ==
    (1..LenBand)
    \cup ((LenPerMaxScale * MinScale - LenBand)..(LenPerMaxScale * MinScale + LenBand))
    \cup ((LenPerMinScale * (MinScale + 1) - LenBand)..(LenPerMinScale * (MinScale + 1) + LenBand))
\* series tried at the long lengths: constant, alternating, one step
Pattern(n, p) ==
    LET f == [k \in 1..n |-> CASE p = "const" -> 1
                               [] p = "alt" -> k % 2
                               [] OTHER -> IF 2 * k > n THEN 1 ELSE 0]
    IN  SubSeq(f, 1, n)
Patterns == {"const", "alt", "step"}

VARIABLES
    call,          \* the entry point called: "dfa", "basic_dfa" or "hurst"
    x, S, m, Q, skip_agg, observations,     \* arguments
    pc,            \* position in the code
    N, y,          \* dfa: N = len(x), the profile
    s_min, s_max,  \* basic_dfa locals
    Fhq, Fqs,      \* dfa: result array, per-order fluctuation array
    i, j, q, s,    \* dfa: loop variables (enumerate indices are 0-based)
    Ns, segs,      \* dfa: locals of the scale loop body
    outcome,       \* "running", "return" or the name of the exception raised
    result         \* the value returned to the caller

vars == <<call, x, S, m, Q, skip_agg, observations, pc, N, y, s_min, s_max,
          Fhq, Fqs, i, j, q, s, Ns, segs, outcome, result>>

\* ------------------------------------------------------------ arithmetic
Max(a, b) == IF a >= b THEN a ELSE b
Min(a, b) == IF a <= b THEN a ELSE b

\* Python's floor division for a positive divisor (\div floors in TLA+).
FloorDiv(a, b) == a \div b

\* The sum of seq[lo..hi], by halves (the recursion stays shallow on long series).
RECURSIVE SumRange(_, _, _)
SumRange(seq, lo, hi) ==
    IF lo > hi THEN 0
    ELSE IF lo = hi THEN seq[lo]
    ELSE LET mid == (lo + hi) \div 2
         IN  SumRange(seq, lo, mid) + SumRange(seq, mid + 1, hi)
Sum(seq) == SumRange(seq, 1, Len(seq))

\* np.zeros(n)
Zero == [cls |-> "zero"]
Zeros(n) == [k \in 1..n |-> Zero]

\* x - np.mean(x), as numerators over the denominator len(x)
Centered(xs) ==
    LET total == Sum(xs)
    IN  [k \in 1..Len(xs) |-> Len(xs) * xs[k] - total]

\* np.cumsum: the running sums acc + seq[lo], acc + seq[lo] + seq[lo+1], ...
\* of seq[lo..hi], by halves.
RECURSIVE CumSumRange(_, _, _, _)
CumSumRange(seq, lo, hi, acc) ==
    IF lo > hi THEN <<>>
    ELSE IF lo = hi THEN <<acc + seq[lo]>>
    ELSE LET mid == (lo + hi) \div 2
             left == CumSumRange(seq, lo, mid, acc)
         IN  left \o CumSumRange(seq, mid + 1, hi, left[Len(left)])
CumSum(seq) == CumSumRange(seq, 1, Len(seq), 0)

\* Faulty variant: the running sum of x itself, the mean not taken off
ProfileUncentered(xs, skip) ==
    IF skip THEN [num |-> xs, den |-> 1]
    ELSE [num |-> CumSum([k \in 1..Len(xs) |-> Len(xs) * xs[k]]), den |-> Len(xs)]

\* The profile: lines 30-33.
Profile(xs, skip) ==
    IF skip THEN [num |-> xs, den |-> 1]
    ELSE [num |-> CumSum(Centered(xs)), den |-> Len(xs)]

\* Python's seq[a:b] on 0-based indices: the bounds are clipped to the
\* sequence, a negative bound counts from the end.  lo is the 0-based index of
\* the first element taken.
ClipIndex(k, n) == IF k < 0 THEN Max(k + n, 0) ELSE Min(k, n)
PySlice(seq, a, b) ==
    LET lo == ClipIndex(a, Len(seq))
        hi == ClipIndex(b, Len(seq))
    IN  [lo |-> lo, vals |-> IF lo < hi THEN SubSeq(seq, lo + 1, hi) ELSE <<>>]

\* n-th forward differences of a sequence
RECURSIVE Diff(_, _)
Diff(vals, n) ==
    IF n = 0 \/ Len(vals) = 0 THEN vals
    ELSE Diff([k \in 1..(Len(vals) - 1) |-> vals[k + 1] - vals[k]], n - 1)

\* np.polyfit(ax, segment, deg) then np.polyval on the same equally spaced
\* axis 1..s, then the mean squared residual: zero exactly when the segment
\* is itself a polynomial of degree <= deg in the axis, that is when its
\* (deg+1)-th differences vanish (always so when it has at most deg+1
\* points); positive otherwise.
ResidualClass(vals, deg) ==
    IF \A d \in {Diff(vals, deg + 1)} : \A k \in 1..Len(d) : d[k] = 0
    THEN "zero" ELSE "pos"

\* Faulty variant: the backward windows laid from the start, like the forward ones
SegmentStartNoTail(n, v, sc, reverse) ==
    IF reverse THEN (v - FloorDiv(n, sc) - 1) * sc ELSE (v - 1) * sc

\* Faulty variant: the backward windows numbered towards the end of the series
SegmentStartTowardsEnd(n, v, sc, reverse) ==
    IF reverse THEN n - (2 * FloorDiv(n, sc) - v + 1) * sc ELSE (v - 1) * sc

\* The start of the slice Fvs2 takes: lines 43 and 45.
SegmentStart(n, v, sc, reverse) ==
    IF reverse THEN n - (v - FloorDiv(n, sc)) * sc ELSE (v - 1) * sc

\* Fvs2(v, s, reverse): lines 35-48.  np.polyfit raises TypeError when the
\* slice is not as long as the axis 1..s.
Detrended(segment, deg, v, sc, reverse) ==
    [dir |-> IF reverse THEN "backward" ELSE "forward",
     v |-> v,
     lo |-> segment.lo,
     len |-> Len(segment.vals),
     cls |-> IF Len(segment.vals) # sc THEN "TypeError"
             ELSE ResidualClass(segment.vals, deg)]
Fvs2(prof, n, deg, v, sc, reverse) ==
    Detrended(PySlice(prof.num, SegmentStart(n, v, sc, reverse),
                      SegmentStart(n, v, sc, reverse) + sc),
              deg, v, sc, reverse)

\* range(a, b) as a sequence
Range(a, b) == [k \in 1..Max(b - a, 0) |-> a + k - 1]

\* The two list comprehensions of lines 57 and 58.
Map(vs, prof, n, deg, sc, reverse) ==
    [k \in 1..Len(vs) |-> Fvs2(prof, n, deg, vs[k], sc, reverse)]
ForwardSegs(prof, n, deg, sc, ns) ==
    Map(Range(1, ns + 1), prof, n, deg, sc, FALSE)
\* Faulty variant: range(Ns+1, 2*Ns): one backward window short
BackwardSegsShort(prof, n, deg, sc, ns) ==
    Map(Range(ns + 1, 2 * ns), prof, n, deg, sc, TRUE)
BackwardSegs(prof, n, deg, sc, ns) ==
    Map(Range(ns + 1, 2 * ns + 1), prof, n, deg, sc, TRUE)

\* ------------------------------------------- classes of the extended reals
Classes(vals) == {vals[k] : k \in 1..Len(vals)}

\* np.log
LogC(c) ==
    CASE c = "zero" -> "neginf"
      [] c = "pos" -> "real"
      [] c = "inf" -> "inf"
      [] OTHER -> "nan"

\* np.mean
MeanC(cs) ==
    LET have == Classes(cs)
    IN  IF Len(cs) = 0 \/ "nan" \in have \/ {"inf", "neginf"} \subseteq have THEN "nan"
        ELSE IF "inf" \in have THEN "inf"
        ELSE IF "neginf" \in have THEN "neginf"
        ELSE IF have = {"zero"} THEN "zero"
        ELSE IF have \subseteq {"zero", "pos"} THEN "pos"
        ELSE "real"

\* np.exp
ExpC(c) ==
    CASE c = "neginf" -> "zero"
      [] c = "inf" -> "inf"
      [] c = "nan" -> "nan"
      [] OTHER -> "pos"

\* c ** e for a non-negative c and an exponent e # 0, by the sign of e
PowC(c, e) ==
    CASE c = "zero" -> IF e > 0 THEN "zero" ELSE "inf"
      [] c = "inf" -> IF e > 0 THEN "inf" ELSE "zero"
      [] c = "pos" -> "pos"
      [] OTHER -> "nan"

\* Lines 63-66: the fluctuation value of one scale for order qq.
\* q/2 and 1/q have the sign of q.
FqClass(ws, qq) ==
    LET f2 == [k \in 1..Len(ws) |-> ws[k].cls]
    IN  IF qq = 0
        THEN ExpC(MeanC([k \in 1..Len(f2) |-> LogC(f2[k])]))
        ELSE PowC(MeanC([k \in 1..Len(f2) |-> PowC(f2[k], qq)]), qq)

Fluctuation(ws, qq, sc) ==
    [cls |-> FqClass(ws, qq), q |-> qq, s |-> sc, windows |-> Len(ws)]

\* Line 68: np.polyfit(np.log(S), np.log(Fqs), 1)[0].  The slope is a real
\* number when every log(Fqs[j]) is; a rank-deficient fit (fewer than two
\* distinct scales) only warns and returns the minimum-norm solution.  When
\* every scale is 1 the column of log(S) is all zero and polyfit's column
\* scaling divides 0 by 0.
SlopeClass(fq) ==
    IF /\ \A k \in 1..Len(fq) : LogC(fq[k].cls) = "real"
       /\ \E k \in 1..Len(fq) : fq[k].s # 1
    THEN "real" ELSE "nan"
Slope(fq) == [cls |-> SlopeClass(fq), fit |-> fq]

\* Lines 56-61: the local variances of every window of scale sc, and the
\* assertion on their number.  np.array([forward, backward]).reshape(-1) lays
\* the two rows end to end; rows of different lengths make no rectangular
\* array (ValueError).
HasTypeError(ws) == \E k \in 1..Len(ws) : ws[k].cls = "TypeError"
Reshape(fwd, bwd, ns) ==
    IF HasTypeError(fwd) \/ HasTypeError(bwd) THEN [exc |-> "TypeError", vals |-> <<>>]
    ELSE IF Len(fwd) # Len(bwd) THEN [exc |-> "ValueError", vals |-> <<>>]
    ELSE IF Len(fwd) + Len(bwd) # 2 * ns THEN [exc |-> "AssertionError", vals |-> fwd \o bwd]
    ELSE [exc |-> "none", vals |-> fwd \o bwd]
ScaleSegs(prof, n, deg, sc) ==
    Reshape(ForwardSegs(prof, n, deg, sc, FloorDiv(n, sc)),
            BackwardSegs(prof, n, deg, sc, FloorDiv(n, sc)),
            FloorDiv(n, sc))

\* ------------------------------------------------- basic_dfa: lines 79-83
SMin(n) == Max(MinScale, FloorDiv(n, LenPerMinScale))
\* Faulty variant: max for min
SMaxLargest(n, smin) == Max(ScaleSpan * smin, FloorDiv(n, LenPerMaxScale))
SMax(n, smin) == Min(ScaleSpan * smin, FloorDiv(n, LenPerMaxScale))
\* Faulty variant: the increment not divided by observations
ScaleGridUndivided(smin, smax, obs) ==
    [k \in 1..obs |-> smin + (k - 1) * (smax - smin)]
\* S[i] = s_min + floor(i * (s_max - s_min) / observations), i = 0..observations-1
ScaleGrid(smin, smax, obs) ==
    LET idx == Range(0, obs)
    IN  [k \in 1..Len(idx) |-> smin + FloorDiv(idx[k] * (smax - smin), obs)]

\* ------------------------------------------------------------------ Init
InitLocals ==
    /\ pc = call
    /\ N = 0
    /\ y = [num |-> <<>>, den |-> 1]
    /\ s_min = 0
    /\ s_max = 0
    /\ Fhq = <<>>
    /\ Fqs = <<>>
    /\ i = 0
    /\ j = 0
    /\ q = 0
    /\ s = 0
    /\ Ns = 0
    /\ segs = <<>>
    /\ outcome = "running"
    /\ result = <<>>

InitDfa ==
    /\ call = "dfa"
    /\ \E n \in 1..MaxN : x \in SeriesOfLen(n)
    /\ S \in ScaleSets
    /\ m \in Degrees
    /\ Q \in QOrders
    /\ skip_agg \in BOOLEAN
    /\ observations = 0

InitBasicDfa ==
    /\ call = "basic_dfa"
    /\ \E n \in BasicLens, p \in Patterns : x = Pattern(n, p)
    /\ Q \in BasicQOrders
    /\ skip_agg \in BOOLEAN
    /\ observations \in 1..MaxObs
    /\ S = <<>>
    /\ m = 0

InitHurst ==
    /\ call = "hurst"
    /\ \E n \in BasicLens, p \in Patterns : x = Pattern(n, p)
    /\ Q = <<>>
    /\ skip_agg \in BOOLEAN
    /\ observations \in 1..MaxObs
    /\ S = <<>>
    /\ m = 0

Init == (InitDfa \/ InitBasicDfa \/ InitHurst) /\ InitLocals

\* --------------------------------------------------------------- actions
\* hurst, lines 91-93: the call of basic_dfa with Q=[2]
Hurst ==
    /\ pc = "hurst"
    /\ Q' = <<HurstOrder>>
    /\ pc' = "basic_dfa"
    /\ UNCHANGED <<call, x, S, m, skip_agg, observations, N, y, s_min, s_max,
                   Fhq, Fqs, i, j, q, s, Ns, segs, outcome, result>>

\* basic_dfa, lines 79-84: the scale grid, then the call of dfa with m=1
BasicDfa ==
    /\ pc = "basic_dfa"
    /\ N' = Len(x)
    /\ s_min' = SMin(Len(x))
    /\ s_max' = SMax(Len(x), s_min')
    /\ S' = ScaleGrid(s_min', s_max', observations)
    /\ m' = BasicDegree
    /\ pc' = "dfa"
    /\ UNCHANGED <<call, x, Q, skip_agg, observations, y,
                   Fhq, Fqs, i, j, q, s, Ns, segs, outcome, result>>

\* dfa, lines 29-50: N, the profile, the result array
DfaEntry ==
    /\ pc = "dfa"
    /\ N' = Len(x)
    /\ y' = Profile(x, skip_agg)
    /\ Fhq' = Zeros(Len(Q))
    /\ i' = 0
    /\ pc' = "order"
    /\ UNCHANGED <<call, x, S, m, Q, skip_agg, observations, s_min, s_max,
                   Fqs, j, q, s, Ns, segs, outcome, result>>

\* dfa, lines 51-52: the next order q of Q
NextOrder ==
    /\ pc = "order"
    /\ i < Len(Q)
    /\ q' = Q[i + 1]
    /\ Fqs' = Zeros(Len(S))
    /\ j' = 0
    /\ pc' = "scale"
    /\ UNCHANGED <<call, x, S, m, Q, skip_agg, observations, N, y, s_min, s_max,
                   Fhq, i, s, Ns, segs, outcome, result>>

Raise(exc) ==
    /\ outcome' = exc
    /\ pc' = "done"

\* dfa, lines 54-66: one scale s of S
ScaleStep ==
    /\ pc = "scale"
    /\ j < Len(S)
    /\ s' = S[j + 1]
    /\ IF s' = 0
       THEN /\ Raise("ZeroDivisionError")
            /\ UNCHANGED <<Ns, segs, Fqs, j>>
       ELSE \E r \in {ScaleSegs(y, N, m, s')} :
                /\ Ns' = FloorDiv(N, s')
                /\ IF r.exc \in {"TypeError", "ValueError"}
                   THEN /\ Raise(r.exc)
                        /\ UNCHANGED <<segs, Fqs, j>>
                   ELSE /\ segs' = r.vals
                        /\ IF r.exc = "AssertionError"
                           THEN /\ Raise(r.exc)
                                /\ UNCHANGED <<Fqs, j>>
                           ELSE /\ Fqs' = [Fqs EXCEPT ![j + 1] = Fluctuation(segs', q, s')]
                                /\ j' = j + 1
                                /\ UNCHANGED <<outcome, pc>>
    /\ UNCHANGED <<call, x, S, m, Q, skip_agg, observations, N, y, s_min, s_max,
                   Fhq, i, q, result>>

\* Faulty variant: the slope stored at Fhq[j], the index of the scale loop
FitStepAtScaleIndex ==
    /\ pc = "scale"
    /\ j = Len(S)
    /\ IF j <= Len(Fhq)
       THEN /\ Fhq' = [Fhq EXCEPT ![j] = Slope(Fqs)]
            /\ i' = i + 1
            /\ pc' = "order"
            /\ UNCHANGED outcome
       ELSE /\ Raise("IndexError")
            /\ UNCHANGED <<Fhq, i>>
    /\ UNCHANGED <<call, x, S, m, Q, skip_agg, observations, N, y, s_min, s_max,
                   Fqs, j, q, s, Ns, segs, result>>

\* dfa, lines 68-69: the slope of log Fqs against log S, stored at Fhq[i]
FitStep ==
    /\ pc = "scale"
    /\ j = Len(S)
    /\ Fhq' = [Fhq EXCEPT ![i + 1] = Slope(Fqs)]
    /\ i' = i + 1
    /\ pc' = "order"
    /\ UNCHANGED <<call, x, S, m, Q, skip_agg, observations, N, y, s_min, s_max,
                   Fqs, j, q, s, Ns, segs, outcome, result>>

\* line 68: with an infinite or nan entry, LAPACK's least squares either
\* carries the value through (the step above, a nan slope) or does not
\* converge, and numpy raises LinAlgError; which one depends on the build.
FitFails ==
    /\ pc = "scale"
    /\ j = Len(S)
    /\ SlopeClass(Fqs) = "nan"
    /\ Raise("LinAlgError")
    /\ UNCHANGED <<call, x, S, m, Q, skip_agg, observations, N, y, s_min, s_max,
                   Fhq, Fqs, i, j, q, s, Ns, segs, result>>

\* dfa, line 71 (and line 84: basic_dfa returns what dfa returned)
DfaReturn ==
    /\ pc = "order"
    /\ i = Len(Q)
    /\ result' = Fhq
    /\ IF call = "hurst"
       THEN pc' = "hurst_return" /\ UNCHANGED outcome
       ELSE pc' = "done" /\ outcome' = "return"
    /\ UNCHANGED <<call, x, S, m, Q, skip_agg, observations, N, y, s_min, s_max,
                   Fhq, Fqs, i, j, q, s, Ns, segs>>

\* hurst, lines 91-93: element [0] of what basic_dfa returned
HurstReturn ==
    /\ pc = "hurst_return"
    /\ result' = result[1]
    /\ outcome' = "return"
    /\ pc' = "done"
    /\ UNCHANGED <<call, x, S, m, Q, skip_agg, observations, N, y, s_min, s_max,
                   Fhq, Fqs, i, j, q, s, Ns, segs>>

Next ==
    \/ Hurst
    \/ BasicDfa
    \/ DfaEntry
    \/ NextOrder
    \/ ScaleStep
    \/ FitStep
    \/ FitFails
    \/ DfaReturn
    \/ HurstReturn

Spec == Init /\ [][Next]_vars

\* ======================================================================
\* Properties
\* ======================================================================
\* the scale s is one the segmentation is specified for: 1 <= s <= N/2
ValidScale(sc) == 1 <= sc /\ 2 * sc <= N
Windows(dir) == {k \in 1..Len(segs) : segs[k].dir = dir}
Returned == pc = "done" /\ outcome = "return"
Elems(seq) == {seq[k] : k \in 1..Len(seq)}

\* C1: for every N and every scale s with 1 <= s <= N/2, the number of forward
\* windows plus the number of backward windows built for s is exactly
\* 2*floor(N/s), and building them raises nothing: the count assertion of
\* line 61 never fails.
C1_WindowCount ==
    ValidScale(s) =>
        /\ outcome \notin {"AssertionError", "ValueError", "TypeError"}
        /\ Cardinality(Windows("forward")) + Cardinality(Windows("backward"))
               = 2 * (N \div s)
        /\ Len(segs) = 2 * (N \div s)

C1_Witness ==
    /\ Returned
    /\ ValidScale(s)
    /\ N % s # 0
    /\ Cardinality(Windows("forward")) = N \div s
    /\ Cardinality(Windows("backward")) = N \div s

\* C2: for every N and every scale s with 1 <= s <= N/2, every window is a run
\* of exactly s consecutive profile indices inside [0, N); the forward windows
\* tile [0, Ns*s) and the backward windows tile [N - Ns*s, N), each without
\* overlap (Ns = floor(N/s)); and every index 0..N-1 lies in some window.
C2_Tiling ==
    ValidScale(s) =>
        /\ \A k \in 1..Len(segs) :
               /\ segs[k].len = s
               /\ 0 <= segs[k].lo
               /\ segs[k].lo + segs[k].len <= N
        /\ {segs[k].lo : k \in Windows("forward")} = {t * s : t \in 0..((N \div s) - 1)}
        /\ Cardinality(Windows("forward")) = N \div s
        /\ {segs[k].lo : k \in Windows("backward")} = {N - t * s : t \in 1..(N \div s)}
        /\ Cardinality(Windows("backward")) = N \div s
        /\ UNION {segs[k].lo..(segs[k].lo + segs[k].len - 1) : k \in 1..Len(segs)}
               = 0..(N - 1)

\* a scale that does not divide N: the head is covered by forward windows
\* only and the tail by backward windows only
C2_Witness ==
    /\ Returned
    /\ ValidScale(s)
    /\ N % s # 0
    /\ \E k \in Windows("backward") : segs[k].lo + segs[k].len = N
    /\ \A k \in Windows("forward") : segs[k].lo + segs[k].len < N
    /\ \E k \in Windows("forward") : segs[k].lo = 0
    /\ \A k \in Windows("backward") : segs[k].lo > 0

\* C3: for every series length N >= 200 and every observations >= 1, basic_dfa
\* derives s_min >= 20 and s_max <= floor(N/10), and the scale set it passes
\* to dfa has exactly `observations` elements.
BasicDone == call \in {"basic_dfa", "hurst"} /\ pc \notin {"hurst", "basic_dfa"}
C3_BasicParameters ==
    (BasicDone /\ Len(x) >= 200) =>
        /\ s_min >= 20
        /\ s_max <= Len(x) \div 10
        /\ Len(S) = observations

C3_Witness ==
    /\ BasicDone
    /\ Returned
    /\ Len(x) >= 200
    /\ s_min > 20
    /\ s_max > s_min
    /\ observations > 1
    /\ Len(S) = observations

\* C4 as claimed: for every non-empty series and every observations >= 1,
\* every scale basic_dfa produces satisfies 20 <= S[i] <= N/10.
C4_AllLengths ==
    BasicDone => \A k \in 1..Len(S) : 20 <= S[k] /\ 10 * S[k] <= Len(x)

\* C4 (amended): for every series of length N >= 200 and every
\* observations >= 1, every scale basic_dfa produces satisfies
\* 20 <= S[i] <= N/10, hence also 1 <= S[i] <= N/2 and S[i] > m = 1.
C4_ScalesInRange ==
    (BasicDone /\ Len(x) >= 200) =>
        \A k \in 1..Len(S) :
            /\ 20 <= S[k]
            /\ 10 * S[k] <= Len(x)
            /\ 1 <= S[k]
            /\ 2 * S[k] <= Len(x)
            /\ S[k] > m

C4_Witness ==
    /\ BasicDone
    /\ Returned
    /\ Len(x) >= 200
    /\ Len(S) > 1
    /\ S[Len(S)] > S[1]

\* C5: dfa called with a scale set holding an s with s <= m, s > N/2 or
\* floor(N/s) = 0 ends in InvalidScale, raised before any window is detrended;
\* it never returns a numeric result for such a scale set.  (Stated in its
\* plainest case: for such a scale set no exponent that is a real number is
\* returned.)
InvalidScale(sc) == sc <= m \/ 2 * sc > Len(x) \/ sc = 0 \/ Len(x) \div sc = 0
ResultValues == IF call = "hurst" THEN {result} ELSE Elems(result)
ReturnedNumber == Returned /\ \A r \in ResultValues : r.cls = "real"
C5_InvalidScaleRejected ==
    (\E k \in 1..Len(S) : InvalidScale(S[k])) => ~ReturnedNumber

\* C6: when 0 is in Q and some window of some scale of S has local variance
\* exactly zero, dfa ends in DomainError; it returns no result made from the
\* logarithm of zero.  (Stated for calls that are valid otherwise: every
\* scale valid and at least two distinct scales.)
ZeroWindow(sc) ==
    \E r \in {ScaleSegs(y, N, m, sc)} :
        \E k \in 1..Len(r.vals) : r.vals[k].cls = "zero"
C6_LogOfZeroRaises ==
    ( /\ 0 \in Elems(Q)
      /\ \A k \in 1..Len(S) : ~InvalidScale(S[k])
      /\ Cardinality(Elems(S)) >= 2
      /\ Returned
      /\ \E k \in 1..Len(S) : ZeroWindow(S[k]) )
    => outcome = "DomainError"

\* C7: dfa called with a scale set holding fewer than 2 distinct scales ends in
\* InsufficientData instead of returning a slope.  (Stated for scale sets
\* that are valid otherwise, in its plainest case: no exponent that is a real
\* number is returned.)
C7_TooFewScalesRejected ==
    ( /\ \A k \in 1..Len(S) : ~InvalidScale(S[k])
      /\ Cardinality(Elems(S)) < 2 )
    => ~ReturnedNumber

\* C8: the sequence dfa returns has exactly len(Q) elements and its i-th
\* element is the exponent of Q[i]: the slope fitted to the fluctuation values
\* of order Q[i] over the scales of S, whatever the other orders in Q are.
ExponentOf(qq) ==
    Slope([t \in 1..Len(S) |-> Fluctuation(ScaleSegs(y, N, m, S[t]).vals, qq, S[t])])
C8_OneExponentPerOrder ==
    Returned =>
        IF call = "hurst"
        THEN result = ExponentOf(HurstOrder)
        ELSE /\ Len(result) = Len(Q)
             /\ \A k \in 1..Len(Q) : result[k] = ExponentOf(Q[k])

C8_Witness ==
    /\ Returned
    /\ call = "dfa"
    /\ Len(Q) = 2
    /\ Q[1] # Q[2]
    /\ result[1].cls = "real"
    /\ result[2].cls = "nan"

\* C9: the profile has the length N of x; with skip_agg false its i-th element
\* is the sum over k <= i of (x[k] - mean(x)), with skip_agg true it is x
\* element for element; and x itself is never changed.  The sum is stated
\* twice: by its first term and its increments, and (for the short series) as
\* the sum written out.
ProfileBuilt == pc \notin {"hurst", "basic_dfa", "dfa"}
C9_ProfileState ==
    ProfileBuilt =>
        /\ N = Len(x)
        /\ Len(y.num) = Len(x)
        /\ skip_agg => (y.den = 1 /\ \A k \in 1..Len(x) : y.num[k] = x[k])
        /\ ~skip_agg =>
               \A total \in {Sum(x)} :
                   /\ y.den = Len(x)
                   /\ y.num[1] = Len(x) * x[1] - total
                   /\ \A k \in 2..Len(x) :
                          y.num[k] - y.num[k - 1] = Len(x) * x[k] - total
                   /\ call = "dfa" =>
                          \A k \in 1..Len(x) :
                              y.num[k] = Len(x) * SumRange(x, 1, k) - k * total
C9_Profile == [](C9_ProfileState) /\ [][x' = x]_vars

C9_Witness ==
    /\ Returned
    /\ ~skip_agg
    /\ Len(x) >= 3
    /\ y.num[Len(x)] = 0
    /\ \E k \in 1..Len(x) : y.num[k] > 0
    /\ \E k \in 1..Len(x) : y.num[k] < 0

\* C10 as claimed: for every N and scale s with 1 <= s <= N/2, the last sample
\* of the series is the last sample of the backward window with the highest
\* index v = 2*floor(N/s).
WindowOf(v) == CHOOSE w \in Elems(segs) : w.v = v
C10_HighestIndexEndsSeries ==
    ValidScale(s) =>
        WindowOf(2 * (N \div s)).lo + WindowOf(2 * (N \div s)).len - 1 = N - 1

\* C10 (amended): for every N and scale s with 1 <= s <= N/2, the last sample
\* of the series is the last sample of the backward window with the lowest
\* index v = floor(N/s) + 1; the backward window with the highest index
\* v = 2*floor(N/s) is the one farthest from the end, starting at
\* N - floor(N/s)*s.
C10_FirstBackwardEndsSeries ==
    ValidScale(s) =>
        /\ WindowOf((N \div s) + 1).dir = "backward"
        /\ WindowOf((N \div s) + 1).lo + WindowOf((N \div s) + 1).len - 1 = N - 1
        /\ WindowOf(2 * (N \div s)).dir = "backward"
        /\ WindowOf(2 * (N \div s)).lo = N - (N \div s) * s

C10_Witness ==
    /\ Returned
    /\ ValidScale(s)
    /\ N % s # 0
    /\ segs[Len(segs)].v = 2 * (N \div s)
    /\ segs[Len(segs)].lo + s < N

====
